---- MODULE Spec2Model ----
(***************************************************************************)
(* dryfinder: repeated-block detection (src/src/main.cpp).                 *)
(*                                                                         *)
(* Strings (std::string) are sequences of byte values; a file is a         *)
(* sequence of lines.  The pipeline of main() after argument parsing is    *)
(* modelled step by step: load, seed index, extension/merge loop over the  *)
(* unordered seed map, collection loop over the unordered aggregate map,   *)
(* the block sort, and the per-block hit sort of print_yaml.  The          *)
(* iteration order of both std::unordered_map objects is unspecified, so   *)
(* each loop iteration picks any not-yet-visited key.                      *)
(*                                                                         *)
(* The part of main before find_repeated_blocks, expand_globs and the sort *)
(* of the files, is a specification of its own (SpecGlob) over a small     *)
(* file system; the block finder (Spec) starts from the list it yields: a  *)
(* list of pairwise distinct path strings in ascending order.              *)
(***************************************************************************)
EXTENDS Integers, Sequences, FiniteSets, TLC

\* ------------------------------------------------------------------ bounds
MaxFiles == 2
MaxTotalLines == 6
MaxMinLines == 2
MaxPatterns == 2

\* ------------------------------------------------------- character codes
SP == 32
TAB == 9
CR == 13
LF == 10

\* ------------------------------------------------------- string helpers

\* std::string operator< : lexicographic on bytes, a proper prefix is smaller.
RECURSIVE StrLess(_, _)
StrLess(a, b) ==
    IF b = <<>> THEN FALSE
    ELSE IF a = <<>> THEN TRUE
    ELSE IF Head(a) # Head(b) THEN Head(a) < Head(b)
    ELSE StrLess(Tail(a), Tail(b))

\* std::vector<std::string> operator< : lexicographic on the elements.
RECURSIVE LinesLess(_, _)
LinesLess(a, b) ==
    IF b = <<>> THEN FALSE
    ELSE IF a = <<>> THEN TRUE
    ELSE IF Head(a) # Head(b) THEN StrLess(Head(a), Head(b))
    ELSE LinesLess(Tail(a), Tail(b))

\* operator<< of a size_t: its decimal digits.
RECURSIVE Dec(_)
Dec(n) == IF n < 10 THEN <<48 + n>> ELSE Dec(n \div 10) \o <<48 + (n % 10)>>

strip_utf8_bom(s) ==
    IF Len(s) >= 3 /\ s[1] = 239 /\ s[2] = 187 /\ s[3] = 191
    THEN SubSeq(s, 4, Len(s))
    ELSE s

rstrip_cr(s) ==
    IF s # <<>> /\ s[Len(s)] = CR THEN SubSeq(s, 1, Len(s) - 1) ELSE s

RECURSIVE strip_indent(_)
strip_indent(in) ==
    IF in # <<>> /\ (Head(in) = SP \/ Head(in) = TAB)
    THEN strip_indent(Tail(in))
    ELSE in

\* ----------------------------------------------------------- line loader

\* raw: the pieces std::getline yields, in order.  An unreadable file
\* yields no lines.
read_lines_normalized(readable, raw) ==
    IF ~readable THEN <<>>
    ELSE [k \in 1..Len(raw) |->
            IF k = 1 THEN strip_utf8_bom(rstrip_cr(raw[k])) ELSE rstrip_cr(raw[k])]

\* Lines [i, j) of v (0-based), joined with '\n', each stripped of its
\* indentation when ignore_indent is set.
RECURSIVE join_lines_norm(_, _, _, _)
join_lines_norm(v, i, j, ignore_indent) ==
    IF i >= j THEN <<>>
    ELSE LET last == IF ignore_indent THEN strip_indent(v[j]) ELSE v[j]
         IN  IF j - 1 > i
             THEN join_lines_norm(v, i, j - 1, ignore_indent) \o <<LF>> \o last
             ELSE last

\* ------------------------------------------------------------ seed index

\* Line k (0-based) of the file with 0-based index fi.
LineAt(fs, fi, k) == fs[fi + 1].lines[k + 1]

NumLines(fs, fi) == Len(fs[fi + 1].lines)

\* FileWindows with the loop test "i + min_lines < size": the last window of
\* every file is left out.
RECURSIVE FileWindowsShort(_, _, _, _)
FileWindowsShort(fs, idx, i, min) ==
    IF i + min < NumLines(fs, idx)
    THEN <<[file_index |-> idx, start |-> i]>> \o FileWindowsShort(fs, idx, i + 1, min)
    ELSE <<>>

\* The Occurrences {idx, i} in the order of the two nested loops: file index
\* ascending, start ascending; files shorter than min_lines give none.
RECURSIVE FileWindows(_, _, _, _)
FileWindows(fs, idx, i, min) ==
    IF i + min <= NumLines(fs, idx)
    THEN <<[file_index |-> idx, start |-> i]>> \o FileWindows(fs, idx, i + 1, min)
    ELSE <<>>

RECURSIVE AllWindows(_, _, _)
AllWindows(fs, idx, min) ==
    IF idx >= Len(fs) THEN <<>>
    ELSE FileWindows(fs, idx, 0, min) \o AllWindows(fs, idx + 1, min)

SeedKey(fs, oc, min, ignore_indent) ==
    join_lines_norm(fs[oc.file_index + 1].lines, oc.start, oc.start + min, ignore_indent)

SelectOccs(fs, ws, key, min, ignore_indent) ==
    LET Test(oc) == SeedKey(fs, oc, min, ignore_indent) = key
    IN  SelectSeq(ws, Test)

\* seeds[key].push_back({idx, i}) for every window: key -> bucket, each
\* bucket in push order.
BuildSeeds(fs, min, ignore_indent) ==
    LET ws == AllWindows(fs, 0, min)
        keys == {SeedKey(fs, ws[n], min, ignore_indent) : n \in 1..Len(ws)}
    IN  [key \in keys |-> SelectOccs(fs, ws, key, min, ignore_indent)]

\* ---------------------------------------------------------- block extender

equal_line(a, b, ignore_indent) ==
    IF ~ignore_indent THEN a = b ELSE strip_indent(a) = strip_indent(b)

\* BackwardExtend with "if" for "while": at most one line is prepended.
BackwardExtendOnce(fs, occs, ignore_indent) ==
    IF \E i \in 1..Len(occs) : occs[i].start = 0 THEN occs
    ELSE LET ref == LineAt(fs, occs[1].file_index, occs[1].start - 1)
         IN  IF \A i \in 2..Len(occs) :
                    equal_line(LineAt(fs, occs[i].file_index, occs[i].start - 1),
                               ref, ignore_indent)
             THEN [i \in 1..Len(occs) |-> [occs[i] EXCEPT !.start = occs[i].start - 1]]
             ELSE occs

\* Backward loop: stop when some occurrence is at the start of its file or
\* some previous line differs from the first occurrence's previous line.
RECURSIVE BackwardExtend(_, _, _)
BackwardExtend(fs, occs, ignore_indent) ==
    IF \E i \in 1..Len(occs) : occs[i].start = 0 THEN occs
    ELSE LET ref == LineAt(fs, occs[1].file_index, occs[1].start - 1)
         IN  IF \A i \in 2..Len(occs) :
                    equal_line(LineAt(fs, occs[i].file_index, occs[i].start - 1),
                               ref, ignore_indent)
             THEN BackwardExtend(fs,
                      [i \in 1..Len(occs) |->
                          [occs[i] EXCEPT !.start = occs[i].start - 1]],
                      ignore_indent)
             ELSE occs

\* ForwardExtend with the bound test "next_idx + 1 >= size" for the other
\* occurrences: their last line is never taken in.
RECURSIVE ForwardExtendShort(_, _, _, _)
ForwardExtendShort(fs, occs, length, ignore_indent) ==
    LET next_idx0 == occs[1].start + length
    IN  IF next_idx0 >= NumLines(fs, occs[1].file_index) THEN length
        ELSE LET ref == LineAt(fs, occs[1].file_index, next_idx0)
                 all_ok ==
                     \A i \in 2..Len(occs) :
                         LET next_idx == occs[i].start + length
                         IN  /\ next_idx + 1 < NumLines(fs, occs[i].file_index)
                             /\ equal_line(LineAt(fs, occs[i].file_index, next_idx),
                                           ref, ignore_indent)
             IN  IF all_ok THEN ForwardExtendShort(fs, occs, length + 1, ignore_indent)
                 ELSE length

\* Forward loop: the final length.
RECURSIVE ForwardExtend(_, _, _, _)
ForwardExtend(fs, occs, length, ignore_indent) ==
    LET next_idx0 == occs[1].start + length
    IN  IF next_idx0 >= NumLines(fs, occs[1].file_index) THEN length
        ELSE LET ref == LineAt(fs, occs[1].file_index, next_idx0)
                 all_ok ==
                     \A i \in 2..Len(occs) :
                         LET next_idx == occs[i].start + length
                         IN  /\ next_idx < NumLines(fs, occs[i].file_index)
                             /\ equal_line(LineAt(fs, occs[i].file_index, next_idx),
                                           ref, ignore_indent)
             IN  IF all_ok THEN ForwardExtend(fs, occs, length + 1, ignore_indent)
                 ELSE length

\* to_generic_string of a path: on POSIX the native and the generic format
\* coincide, the bytes are unchanged.
to_generic_string(p) == p

\* BlockLines taken from the last occurrence of the group.
BlockLinesLast(fs, occs, length) ==
    SubSeq(fs[occs[Len(occs)].file_index + 1].lines,
           occs[Len(occs)].start + 1, occs[Len(occs)].start + length)

\* The block's lines: the first occurrence's stored lines, unchanged.
BlockLines(fs, occs, length) ==
    SubSeq(fs[occs[1].file_index + 1].lines, occs[1].start + 1, occs[1].start + length)

\* build_maximal_block with end_line = start_line + length.
build_maximal_block_EndOff(fs, occs_in, seed_len, ignore_indent) ==
    LET occs == BackwardExtend(fs, occs_in, ignore_indent)
        length == ForwardExtend(fs, occs, seed_len, ignore_indent)
    IN  [lines |-> BlockLines(fs, occs, length),
         hits  |-> [i \in 1..Len(occs) |->
                      [path       |-> to_generic_string(fs[occs[i].file_index + 1].path),
                       start_line |-> occs[i].start + 1,
                       end_line   |-> occs[i].start + 1 + length]]]

build_maximal_block(fs, occs_in, seed_len, ignore_indent) ==
    LET occs == BackwardExtend(fs, occs_in, ignore_indent)
        length == ForwardExtend(fs, occs, seed_len, ignore_indent)
    IN  [lines |-> BlockLines(fs, occs, length),
         hits  |-> [i \in 1..Len(occs) |->
                      [path       |-> to_generic_string(fs[occs[i].file_index + 1].path),
                       start_line |-> occs[i].start + 1,
                       end_line   |-> occs[i].start + length]]]

\* ---------------------------------------------------------------- aggregator

HitKey(h) == h.path \o <<LF>> \o Dec(h.start_line) \o <<LF>> \o Dec(h.end_line)

ContentKey(block, ignore_indent) ==
    join_lines_norm(block.lines, 0, Len(block.lines), ignore_indent)

EmptyAgg == [lines |-> <<>>, hit_keys |-> {}, hits |-> <<>>]

\* MergeHits without the test of hit_keys: every hit is appended.
RECURSIVE MergeHitsAll(_, _, _)
MergeHitsAll(agg, hits, n) ==
    IF n > Len(hits) THEN agg
    ELSE MergeHitsAll([agg EXCEPT !.hit_keys = @ \cup {HitKey(hits[n])},
                                  !.hits = Append(@, hits[n])],
                      hits, n + 1)

\* The inner loop over block.hits: a hit whose key is new is appended.
RECURSIVE MergeHits(_, _, _)
MergeHits(agg, hits, n) ==
    IF n > Len(hits) THEN agg
    ELSE LET k == HitKey(hits[n])
         IN  IF k \in agg.hit_keys THEN MergeHits(agg, hits, n + 1)
             ELSE MergeHits([agg EXCEPT !.hit_keys = @ \cup {k},
                                        !.hits = Append(@, hits[n])],
                            hits, n + 1)

\* MergeBlock that never finds an existing aggregate: every seed group gets
\* an entry of its own.
MergeBlockApart(bc, block, ignore_indent) ==
    LET content_key == ContentKey(block, ignore_indent) \o <<LF>>
                           \o Dec(Cardinality(DOMAIN bc))
        agg2 == MergeHits([EmptyAgg EXCEPT !.lines = block.lines], block.hits, 1)
    IN  [k \in DOMAIN bc \cup {content_key} |-> IF k = content_key THEN agg2 ELSE bc[k]]

\* MergeBlock keyed by the block's first line alone.
MergeBlockFirstLine(bc, block, ignore_indent) ==
    LET content_key == join_lines_norm(block.lines, 0, 1, ignore_indent)
        agg0 == IF content_key \in DOMAIN bc THEN bc[content_key] ELSE EmptyAgg
        agg1 == IF agg0.lines = <<>> THEN [agg0 EXCEPT !.lines = block.lines] ELSE agg0
        agg2 == MergeHits(agg1, block.hits, 1)
    IN  [k \in DOMAIN bc \cup {content_key} |-> IF k = content_key THEN agg2 ELSE bc[k]]

\* One iteration of the loop over seeds for a bucket of >= 2 occurrences:
\* the new content-keyed map.
MergeBlock(bc, block, ignore_indent) ==
    LET content_key == ContentKey(block, ignore_indent)
        agg0 == IF content_key \in DOMAIN bc THEN bc[content_key] ELSE EmptyAgg
        agg1 == IF agg0.lines = <<>> THEN [agg0 EXCEPT !.lines = block.lines] ELSE agg0
        agg2 == MergeHits(agg1, block.hits, 1)
    IN  [k \in DOMAIN bc \cup {content_key} |-> IF k = content_key THEN agg2 ELSE bc[k]]

\* CollectAgg with "> 2" for ">= 2".
CollectAggOver2(o, agg) ==
    IF Len(agg.hits) > 2 THEN Append(o, [lines |-> agg.lines, hits |-> agg.hits])
    ELSE o

\* One iteration of the loop over by_content: kept only with >= 2 hits.
CollectAgg(o, agg) ==
    IF Len(agg.hits) >= 2 THEN Append(o, [lines |-> agg.lines, hits |-> agg.hits])
    ELSE o

\* ------------------------------------------------------------------ ordering

\* block_less without the content tie-break.
block_less_NoContent(a, b) ==
    IF Len(a.lines) # Len(b.lines) THEN Len(a.lines) > Len(b.lines)
    ELSE IF Len(a.hits) # Len(b.hits) THEN Len(a.hits) > Len(b.hits)
    ELSE FALSE

\* block_less with the occurrence counts compared ascending.
block_less_HitsAscending(a, b) ==
    IF Len(a.lines) # Len(b.lines) THEN Len(a.lines) > Len(b.lines)
    ELSE IF Len(a.hits) # Len(b.hits) THEN Len(a.hits) < Len(b.hits)
    ELSE IF a.lines # <<>> /\ b.lines # <<>> /\ a.lines[1] # b.lines[1]
         THEN StrLess(a.lines[1], b.lines[1])
    ELSE LinesLess(a.lines, b.lines)

\* The comparator of the block sort in main.
block_less(a, b) ==
    IF Len(a.lines) # Len(b.lines) THEN Len(a.lines) > Len(b.lines)
    ELSE IF Len(a.hits) # Len(b.hits) THEN Len(a.hits) > Len(b.hits)
    ELSE IF a.lines # <<>> /\ b.lines # <<>> /\ a.lines[1] # b.lines[1]
         THEN StrLess(a.lines[1], b.lines[1])
    ELSE LinesLess(a.lines, b.lines)

\* The comparator of the hit sort in print_yaml.
hit_less(a, b) ==
    IF a.path # b.path THEN StrLess(a.path, b.path)
    ELSE IF a.start_line # b.start_line THEN a.start_line < b.start_line
    ELSE a.end_line < b.end_line

RemoveAt(s, i) == SubSeq(s, 1, i - 1) \o SubSeq(s, i + 1, Len(s))

\* What std::sort may return: every arrangement in which no later element is
\* less than an earlier one (elements the comparator ties come in any order).
RECURSIVE SortedBlocks(_)
SortedBlocks(s) ==
    IF s = <<>> THEN {<<>>}
    ELSE UNION {{<<s[i]>> \o t : t \in SortedBlocks(RemoveAt(s, i))} :
                  i \in {m \in 1..Len(s) :
                           \A j \in 1..Len(s) : ~block_less(s[j], s[m])}}

RECURSIVE SortedHits(_)
SortedHits(s) ==
    IF s = <<>> THEN {<<>>}
    ELSE UNION {{<<s[i]>> \o t : t \in SortedHits(RemoveAt(s, i))} :
                  i \in {m \in 1..Len(s) :
                           \A j \in 1..Len(s) : ~hit_less(s[j], s[m])}}

\* print_yaml: the blocks in order, each with a sorted copy of its hits.
RECURSIVE PrintedBlocks(_)
PrintedBlocks(blocks) ==
    IF blocks = <<>> THEN {<<>>}
    ELSE {<<[lines |-> Head(blocks).lines, hits |-> h]>> \o t :
            h \in SortedHits(Head(blocks).hits), t \in PrintedBlocks(Tail(blocks))}

\* --------------------------------------------------------------------- inputs

\* The raw lines bounded inputs are built from: "a", " a", "b".
RawLineSet == {<<97>>, <<SP, 97>>, <<98>>}

SeqsUpTo(S, n) == UNION {[1..k -> S] : k \in 0..n}

\* A file on disk: readable with at most n raw lines, or unreadable.
DiskFiles(n) ==
    {[readable |-> TRUE, raw |-> r] : r \in SeqsUpTo(RawLineSet, n)}
        \cup {[readable |-> FALSE, raw |-> <<>>]}

\* The i-th path of the sorted file list main passes on: "a", "a/x", "b",
\* "b/x", ... (pairwise distinct strings, ascending).
PathOf(i) ==
    IF i % 2 = 1 THEN <<97 + (i \div 2)>> ELSE <<97 + ((i - 1) \div 2), 47, 120>>

\* n files with at most budget raw lines in all.
RECURSIVE DisksOf(_, _)
DisksOf(n, budget) ==
    IF n = 0 THEN {<<>>}
    ELSE UNION {{<<f>> \o rest : rest \in DisksOf(n - 1, budget - Len(f.raw))} :
                  f \in DiskFiles(budget)}

BoundedInputs ==
    UNION {DisksOf(n, MaxTotalLines) : n \in 0..MaxFiles}

\* Scenario A: file1 = A B C D E, file2 = B C D E F, min_lines = 3.
ScenarioA ==
    <<[readable |-> TRUE, raw |-> <<<<65>>, <<66>>, <<67>>, <<68>>, <<69>>>>],
      [readable |-> TRUE, raw |-> <<<<66>>, <<67>>, <<68>>, <<69>>, <<70>>>>]>>

\* Scenario C with a BOM, CRLF line ends and tab indentation in file2:
\* file1 = "a", "b", "  x" and file2 = BOM "a" CR, "b" CR, TAB "x" CR.
ScenarioC ==
    <<[readable |-> TRUE, raw |-> <<<<97>>, <<98>>, <<SP, SP, 120>>>>],
      [readable |-> TRUE,
       raw |-> <<<<239, 187, 191, 97, CR>>, <<98, CR>>, <<TAB, 120, CR>>>>]>>

\* Scenario D, scaled down: three files share the region a,b,c; its line b
\* occurs once more on its own; x and y each occur twice on their own.
ScenarioD ==
    <<[readable |-> TRUE, raw |-> <<<<97>>, <<98>>, <<99>>>>],
      [readable |-> TRUE, raw |-> <<<<97>>, <<98>>, <<99>>>>],
      [readable |-> TRUE,
       raw |-> <<<<97>>, <<98>>, <<99>>, <<120>>, <<98>>, <<121>>, <<121>>, <<120>>>>]>>

\* ---------------------------------------------------------------- glob engine

SLASH == 47
DOT == 46
STAR == 42
QMARK == 63

IsGlobChar(c) == c = STAR \/ c = QMARK

StartsWith(s, pre) == Len(pre) <= Len(s) /\ SubSeq(s, 1, Len(pre)) = pre

MaxOf(S) == CHOOSE x \in S : \A y \in S : y <= x

MinOf(S) == CHOOSE x \in S : \A y \in S : x <= y

RECURSIVE StripLeadingSlashes(_)
StripLeadingSlashes(s) ==
    IF s # <<>> /\ s[1] = SLASH THEN StripLeadingSlashes(Tail(s)) ELSE s

\* Leading "./" pairs are erased, then leading '/'.
RECURSIVE lstrip_dots_slashes(_)
lstrip_dots_slashes(s) ==
    IF Len(s) >= 2 /\ s[1] = DOT /\ s[2] = SLASH
    THEN lstrip_dots_slashes(SubSeq(s, 3, Len(s)))
    ELSE StripLeadingSlashes(s)

\* The prefix before the last '/' that precedes the first glob character;
\* the whole pattern when it has no glob character; "." when empty.
compute_base_dir(generic_pattern) ==
    LET globs == {k \in 1..Len(generic_pattern) : IsGlobChar(generic_pattern[k])}
        first == MinOf(globs)
        slashes == {k \in 1..first : generic_pattern[k] = SLASH}
        prefix == IF globs = {} THEN generic_pattern
                  ELSE IF slashes # {}
                       THEN SubSeq(generic_pattern, 1, MaxOf(slashes) - 1)
                       ELSE <<DOT>>
    IN  IF prefix = <<>> THEN <<DOT>> ELSE prefix

\* The regex of a glob suffix as its sequence of atoms between ^ and $:
\* "any" is .*, "seg" is [^/]*, "one" is [^/], "lit" is the (escaped) byte.
RECURSIVE to_regex_from_glob_suffix(_)
to_regex_from_glob_suffix(suffix) ==
    IF suffix = <<>> THEN <<>>
    ELSE IF Head(suffix) = STAR
         THEN LET rest == {k \in 1..Len(suffix) : suffix[k] # STAR}
                  j == IF rest = {} THEN Len(suffix) + 1 ELSE MinOf(rest)
                  stars == j - 1
              IN  <<[t |-> IF stars >= 2 THEN "any" ELSE "seg", c |-> 0]>>
                      \o to_regex_from_glob_suffix(SubSeq(suffix, j, Len(suffix)))
    ELSE IF Head(suffix) = QMARK
         THEN <<[t |-> "one", c |-> 0]>> \o to_regex_from_glob_suffix(Tail(suffix))
    ELSE <<[t |-> "lit", c |-> Head(suffix)]>> \o to_regex_from_glob_suffix(Tail(suffix))

\* std::regex_match: the atoms from i on match all of s from j on.  The
\* ECMAScript '.' matches no line terminator.
RECURSIVE regex_match_from(_, _, _, _)
regex_match_from(s, re, i, j) ==
    IF i > Len(re) THEN j > Len(s)
    ELSE IF re[i].t = "lit"
         THEN j <= Len(s) /\ s[j] = re[i].c /\ regex_match_from(s, re, i + 1, j + 1)
    ELSE IF re[i].t = "one"
         THEN j <= Len(s) /\ s[j] # SLASH /\ regex_match_from(s, re, i + 1, j + 1)
    ELSE IF re[i].t = "seg"
         THEN \/ regex_match_from(s, re, i + 1, j)
              \/ j <= Len(s) /\ s[j] # SLASH /\ regex_match_from(s, re, i, j + 1)
    ELSE \/ regex_match_from(s, re, i + 1, j)
         \/ j <= Len(s) /\ s[j] # LF /\ s[j] # CR /\ regex_match_from(s, re, i, j + 1)

regex_match(s, re) == regex_match_from(s, re, 1, 1)

\* The suffix of the pattern after its base, "**" when empty.
PatternSuffix(p, base_generic) ==
    LET globs == {k \in 1..Len(p) : IsGlobChar(p[k])}
        from == IF globs = {} THEN Len(p) ELSE MinOf(globs)
        slashes == {k \in 1..from : p[k] = SLASH}
        fallback == IF slashes # {} /\ MaxOf(slashes) < Len(p)
                    THEN SubSeq(p, MaxOf(slashes) + 1, Len(p))
                    ELSE p
        suffix == IF base_generic # <<>>
                  THEN IF StartsWith(p, base_generic \o <<SLASH>>)
                       THEN SubSeq(p, Len(base_generic) + 2, Len(p))
                       ELSE IF p = base_generic THEN <<>>
                       ELSE fallback
                  ELSE p
    IN  IF suffix = <<>> THEN <<STAR, STAR>> ELSE suffix

compile_pattern(pattern_raw) ==
    LET p == lstrip_dots_slashes(to_generic_string(pattern_raw))
        base == compute_base_dir(p)
        base_generic == lstrip_dots_slashes(to_generic_string(base))
    IN  [base_dir |-> base,
         regex_suffix |-> to_regex_from_glob_suffix(PatternSuffix(p, base_generic))]

\* ------------------------------------------------------------- file system

\* A file system below the working directory: dirs and files are sets of
\* canonical paths (sequences of names, <<>> the working directory), links
\* maps the canonical path of a symbolic link to the canonical path it
\* points to.

\* The components of a path string.
RECURSIVE SplitPath(_)
SplitPath(s) ==
    LET slashes == {k \in 1..Len(s) : s[k] = SLASH}
    IN  IF slashes = {} THEN <<s>>
        ELSE <<SubSeq(s, 1, MinOf(slashes) - 1)>>
                 \o SplitPath(SubSeq(s, MinOf(slashes) + 1, Len(s)))

RECURSIVE JoinPath(_)
JoinPath(comps) ==
    IF comps = <<>> THEN <<>>
    ELSE IF Len(comps) = 1 THEN comps[1]
    ELSE comps[1] \o <<SLASH>> \o JoinPath(Tail(comps))

FsTarget(fsy, node) == IF node \in DOMAIN fsy.links THEN fsy.links[node] ELSE node

FsNodes(fsy) == fsy.dirs \cup fsy.files \cup DOMAIN fsy.links

\* Path resolution from the directory cur, symbolic links followed: ok and
\* the canonical path reached.
RECURSIVE FsResolve(_, _, _)
FsResolve(fsy, comps, cur) ==
    IF comps = <<>> THEN [ok |-> TRUE, at |-> cur]
    ELSE IF cur \notin fsy.dirs THEN [ok |-> FALSE, at |-> <<>>]
    ELSE IF Head(comps) = <<>> \/ Head(comps) = <<DOT>>
         THEN FsResolve(fsy, Tail(comps), cur)
    ELSE IF Head(comps) = <<DOT, DOT>>
         THEN IF cur = <<>> THEN [ok |-> FALSE, at |-> <<>>]
              ELSE FsResolve(fsy, Tail(comps), SubSeq(cur, 1, Len(cur) - 1))
    ELSE IF Append(cur, Head(comps)) \in FsNodes(fsy)
         THEN FsResolve(fsy, Tail(comps), FsTarget(fsy, Append(cur, Head(comps))))
    ELSE [ok |-> FALSE, at |-> <<>>]

\* weakly_canonical of a path string.
Canonical(fsy, path) == FsResolve(fsy, SplitPath(path), <<>>)

fs_exists(fsy, path) == Canonical(fsy, path).ok

fs_is_regular_file(fsy, path) ==
    Canonical(fsy, path).ok /\ Canonical(fsy, path).at \in fsy.files

\* path::filename: the last component.
fs_filename(path) == SplitPath(path)[Len(SplitPath(path))]

\* recursive_directory_iterator with follow_directory_symlink: the paths,
\* as the iterator spells them, of the regular files under the directory
\* spelled `spelled` whose canonical path is `canon`.
RECURSIVE DirectoryFiles(_, _, _)
DirectoryFiles(fsy, spelled, canon) ==
    UNION {LET sp == spelled \o <<SLASH>> \o ch[Len(ch)]
               t == FsTarget(fsy, ch)
           IN  IF t \in fsy.files THEN {sp}
               ELSE IF t \in fsy.dirs THEN DirectoryFiles(fsy, sp, t)
               ELSE {}
           : ch \in {n \in FsNodes(fsy) :
                       Len(n) = Len(canon) + 1 /\ SubSeq(n, 1, Len(canon)) = canon}}

\* path::lexically_relative on canonical paths.
LexicallyRelative(c, b) ==
    LET common == {n \in 0..Len(b) : n <= Len(c) /\ SubSeq(c, 1, n) = SubSeq(b, 1, n)}
        n == MaxOf(common)
        comps == [k \in 1..(Len(b) - n) |-> <<DOT, DOT>>] \o SubSeq(c, n + 1, Len(c))
    IN  IF comps = <<>> THEN <<DOT>> ELSE JoinPath(comps)

\* fs::relative(path, base): both made canonical, then lexically_relative.
fs_relative(fsy, path, base) ==
    LexicallyRelative(Canonical(fsy, path).at, Canonical(fsy, base).at)

\* The two trees the patterns are expanded in: the directory a with the file
\* a/x and the directory a/s with the file a/s/y; in the second, a/l is a
\* symbolic link to a/s.
FsPlain ==
    [dirs  |-> {<<>>, <<<<97>>>>, <<<<97>>, <<115>>>>},
     files |-> {<<<<97>>, <<120>>>>, <<<<97>>, <<115>>, <<121>>>>},
     links |-> <<>>]

FsLinked ==
    [dirs  |-> {<<>>, <<<<97>>>>, <<<<97>>, <<115>>>>},
     files |-> {<<<<97>>, <<120>>>>, <<<<97>>, <<115>>, <<121>>>>},
     links |-> [n \in {<<<<97>>, <<108>>>>} |-> <<<<97>>, <<115>>>>]]

\* The patterns of the command line: a/*  ./a/*  a/../a/*  **  a/**  a/x  n/*
PatternSet ==
    {<<97, SLASH, STAR>>,
     <<DOT, SLASH, 97, SLASH, STAR>>,
     <<97, SLASH, DOT, DOT, SLASH, 97, SLASH, STAR>>,
     <<STAR, STAR>>,
     <<97, SLASH, STAR, STAR>>,
     <<97, SLASH, 120>>,
     <<110, SLASH, STAR>>}

\* ---------------------------------------------------------------------- state

VARIABLES
    disk,          \* the files the sorted path list names, as they are on disk
    min_lines,     \* --min-lines
    ignore_indent, \* --ignore-indentation
    pc,            \* position in main / find_repeated_blocks
    files,         \* std::vector<FileData> files
    seeds,         \* unordered_map seed-string -> occurrences
    seeds_todo,    \* keys of seeds the extension loop has not visited yet
    by_content,    \* unordered_map content key -> Agg
    agg_todo,      \* keys of by_content the collection loop has not visited yet
    out,           \* the vector find_repeated_blocks returns; main's blocks
    printed,       \* the blocks as print_yaml emits them
    fsys,          \* the file system the patterns are expanded in
    patterns,      \* main::patterns
    pat_idx,       \* how many patterns the loop of expand_globs has done
    results,       \* expand_globs::results; main's files
    seen,          \* expand_globs::seen
    gpc            \* position in main before find_repeated_blocks

\* The state of the block finder and the state of the pattern expansion.
fvars == <<disk, min_lines, ignore_indent, pc, files, seeds, seeds_todo,
           by_content, agg_todo, out, printed>>

gvars == <<fsys, patterns, pat_idx, results, seen, gpc>>

vars == <<fvars, gvars>>

Init ==
    /\ \/ /\ disk \in BoundedInputs
          /\ min_lines \in 1..MaxMinLines
          /\ ignore_indent \in BOOLEAN
       \/ /\ disk = ScenarioA
          /\ min_lines = 3
          /\ ignore_indent = FALSE
       \/ /\ disk = ScenarioC
          /\ min_lines = 3
          /\ ignore_indent \in BOOLEAN
       \/ /\ disk = ScenarioD
          /\ min_lines = 1
          /\ ignore_indent \in BOOLEAN
    /\ pc = "load"
    /\ files = <<>>
    /\ seeds = <<>>
    /\ seeds_todo = {}
    /\ by_content = <<>>
    /\ agg_todo = {}
    /\ out = <<>>
    /\ printed = <<>>
    /\ fsys = FsPlain
    /\ patterns = <<>>
    /\ pat_idx = 0
    /\ results = <<>>
    /\ seen = {}
    /\ gpc = "passed"

\* find_repeated_blocks: load all files.
LoadFiles ==
    /\ pc = "load"
    /\ files' = [i \in 1..Len(disk) |->
                    [path  |-> PathOf(i),
                     lines |-> read_lines_normalized(disk[i].readable, disk[i].raw)]]
    /\ pc' = "seed"
    /\ UNCHANGED <<disk, min_lines, ignore_indent, seeds, seeds_todo, by_content,
                   agg_todo, out, printed>>
    /\ UNCHANGED gvars

\* find_repeated_blocks: map every window of min_lines lines to its bucket.
IndexSeeds ==
    /\ pc = "seed"
    /\ seeds' = BuildSeeds(files, min_lines, ignore_indent)
    /\ seeds_todo' = DOMAIN seeds'
    /\ pc' = "extend"
    /\ UNCHANGED <<disk, min_lines, ignore_indent, files, by_content, agg_todo,
                   out, printed>>
    /\ UNCHANGED gvars

\* One iteration of "for (auto& [seed, occs] : seeds)", in any order.
ExtendSeed ==
    /\ pc = "extend"
    /\ \E seed \in seeds_todo :
          /\ seeds_todo' = seeds_todo \ {seed}
          /\ \/ /\ Len(seeds[seed]) < 2
                /\ UNCHANGED by_content
             \/ /\ Len(seeds[seed]) >= 2
                /\ by_content' =
                      MergeBlock(by_content,
                                 build_maximal_block(files, seeds[seed], min_lines,
                                                     ignore_indent),
                                 ignore_indent)
    /\ UNCHANGED <<disk, min_lines, ignore_indent, pc, files, seeds, agg_todo,
                   out, printed>>
    /\ UNCHANGED gvars

\* The loop over seeds ends; the loop over by_content begins.
EndExtend ==
    /\ pc = "extend"
    /\ seeds_todo = {}
    /\ agg_todo' = DOMAIN by_content
    /\ pc' = "collect"
    /\ UNCHANGED <<disk, min_lines, ignore_indent, files, seeds, seeds_todo,
                   by_content, out, printed>>
    /\ UNCHANGED gvars

\* One iteration of "for (auto& [_, agg] : by_content)", in any order.
CollectBlock ==
    /\ pc = "collect"
    /\ \E k \in agg_todo :
          /\ agg_todo' = agg_todo \ {k}
          /\ out' = CollectAgg(out, by_content[k])
    /\ UNCHANGED <<disk, min_lines, ignore_indent, pc, files, seeds, seeds_todo,
                   by_content, printed>>
    /\ UNCHANGED gvars

\* find_repeated_blocks returns.
EndCollect ==
    /\ pc = "collect"
    /\ agg_todo = {}
    /\ pc' = "sort"
    /\ UNCHANGED <<disk, min_lines, ignore_indent, files, seeds, seeds_todo,
                   by_content, agg_todo, out, printed>>
    /\ UNCHANGED gvars

\* main: std::sort of the blocks.
SortBlocks ==
    /\ pc = "sort"
    /\ out' \in SortedBlocks(out)
    /\ pc' = "print"
    /\ UNCHANGED <<disk, min_lines, ignore_indent, files, seeds, seeds_todo,
                   by_content, agg_todo, printed>>
    /\ UNCHANGED gvars

\* print_yaml: every block with a sorted copy of its hits.
PrintYaml ==
    /\ pc = "print"
    /\ printed' \in PrintedBlocks(out)
    /\ pc' = "done"
    /\ UNCHANGED <<disk, min_lines, ignore_indent, files, seeds, seeds_todo,
                   by_content, agg_todo, out>>
    /\ UNCHANGED gvars

Next ==
    \/ LoadFiles
    \/ IndexSeeds
    \/ ExtendSeed
    \/ EndExtend
    \/ CollectBlock
    \/ EndCollect
    \/ SortBlocks
    \/ PrintYaml

Spec == Init /\ [][Next]_vars

\* ------------------------------------------- main up to find_repeated_blocks

\* The comparator of the file sort in main.
path_less(a, b) == StrLess(to_generic_string(a), to_generic_string(b))

RECURSIVE SortedPaths(_)
SortedPaths(s) ==
    IF s = <<>> THEN {<<>>}
    ELSE UNION {{<<s[i]>> \o t : t \in SortedPaths(RemoveAt(s, i))} :
                  i \in {m \in 1..Len(s) :
                           \A j \in 1..Len(s) : ~path_less(s[j], s[m])}}

\* The orders in which a directory iteration may come upon the paths of S.
RECURSIVE Arrangements(_)
Arrangements(S) ==
    IF S = {} THEN {<<>>}
    ELSE UNION {{<<x>> \o t : t \in Arrangements(S \ {x})} : x \in S}

\* The base expand_globs works with for a pattern.
BaseOf(pat) ==
    IF compile_pattern(pat).base_dir = <<>> THEN <<DOT>>
    ELSE compile_pattern(pat).base_dir

\* The regular files under base whose path relative to base matches.
Matched(fsy, pat) ==
    {g \in DirectoryFiles(fsy, BaseOf(pat), Canonical(fsy, BaseOf(pat)).at) :
        regex_match(to_generic_string(fs_relative(fsy, g, BaseOf(pat))),
                    compile_pattern(pat).regex_suffix)}

GlobInit ==
    /\ fsys \in {FsPlain, FsLinked}
    /\ patterns \in UNION {[1..n -> PatternSet] : n \in 1..MaxPatterns}
    /\ pat_idx = 0
    /\ results = <<>>
    /\ seen = {}
    /\ gpc = "expand"
    /\ disk = <<>>
    /\ min_lines = 1
    /\ ignore_indent = FALSE
    /\ pc = "wait"
    /\ files = <<>>
    /\ seeds = <<>>
    /\ seeds_todo = {}
    /\ by_content = <<>>
    /\ agg_todo = {}
    /\ out = <<>>
    /\ printed = <<>>

\* One iteration of "for (const auto& pat : patterns)" in expand_globs.
ExpandPattern ==
    /\ gpc = "expand"
    /\ pat_idx < Len(patterns)
    /\ pat_idx' = pat_idx + 1
    /\ LET pat == patterns[pat_idx + 1]
           base == BaseOf(pat)
       IN  \/ /\ ~fs_exists(fsys, base)
              /\ UNCHANGED <<results, seen>>
           \/ /\ fs_exists(fsys, base)
              /\ fs_is_regular_file(fsys, base)
              /\ IF regex_match(to_generic_string(fs_filename(base)),
                                compile_pattern(pat).regex_suffix)
                    /\ to_generic_string(base) \notin seen
                 THEN /\ seen' = seen \cup {to_generic_string(base)}
                      /\ results' = Append(results, base)
                 ELSE UNCHANGED <<results, seen>>
           \/ /\ fs_exists(fsys, base)
              /\ ~fs_is_regular_file(fsys, base)
              /\ seen' = seen \cup Matched(fsys, pat)
              /\ \E order \in Arrangements(Matched(fsys, pat) \ seen) :
                    results' = results \o order
    /\ UNCHANGED <<fsys, patterns, gpc>>
    /\ UNCHANGED fvars

\* expand_globs returns; main sorts the files by their generic string.
SortFiles ==
    /\ gpc = "expand"
    /\ pat_idx = Len(patterns)
    /\ results' \in SortedPaths(results)
    /\ gpc' = "sorted"
    /\ UNCHANGED <<fsys, patterns, pat_idx, seen>>
    /\ UNCHANGED fvars

GlobNext ==
    \/ ExpandPattern
    \/ SortFiles

SpecGlob == GlobInit /\ [][GlobNext]_vars

\* ------------------------------------------------------ vocabulary of the claims

\* find_repeated_blocks has returned: out is its result.
Returned == pc \in {"sort", "print", "done"}

Done == pc = "done"

\* The blocks the claims speak of: the returned ones and the printed ones.
OutputBlocks ==
    IF Returned THEN {out[i] : i \in 1..Len(out)} \cup {printed[i] : i \in 1..Len(printed)}
    ELSE {}

HitSet(b) == {b.hits[i] : i \in 1..Len(b.hits)}

FileIndexOf(path) == CHOOSE i \in 1..Len(files) : files[i].path = path

\* Line n (1-based) of the loaded file with that path, and its line count.
FileLine(path, n) == files[FileIndexOf(path)].lines[n]

FileLen(path) == Len(files[FileIndexOf(path)].lines)

\* A line without its leading spaces and tabs.
Unindented(l) ==
    LET body == {k \in 1..Len(l) : l[k] # SP /\ l[k] # TAB}
    IN  IF body = {} THEN <<>>
        ELSE SubSeq(l, CHOOSE k \in body : \A m \in body : k <= m, Len(l))

\* Equality of two lines under the active comparison mode.
SameLine(a, b) == IF ignore_indent THEN Unindented(a) = Unindented(b) ELSE a = b

SameLines(u, v) ==
    /\ Len(u) = Len(v)
    /\ \A k \in 1..Len(u) : SameLine(u[k], v[k])

HasPrev(h) == h.start_line >= 2

HasNext(h) == h.end_line < FileLen(h.path)

PrevLine(h) == FileLine(h.path, h.start_line - 1)

NextLine(h) == FileLine(h.path, h.end_line + 1)

\* ------------------------------------------------------------------------ C1
\* C1: every returned block is maximal for its hit set: its hits do not all
\* have a previous line with those lines all equal under the comparison
\* mode, and do not all have a following line with those lines all equal.
C1_Maximal ==
    \A b \in OutputBlocks :
        /\ ~(/\ \A h \in HitSet(b) : HasPrev(h)
             /\ \A h, g \in HitSet(b) : SameLine(PrevLine(h), PrevLine(g)))
        /\ ~(/\ \A h \in HitSet(b) : HasNext(h)
             /\ \A h, g \in HitSet(b) : SameLine(NextLine(h), NextLine(g)))

\* A block that was extended and all of whose hits still have a previous line.
C1_Witness ==
    /\ Done
    /\ \E b \in OutputBlocks :
          /\ Len(b.lines) > min_lines
          /\ \A h \in HitSet(b) : HasPrev(h)

\* ------------------------------------------------------------------------ C2
\* C2: the hits of a returned block are all the places where its content
\* occurs: every file and offset whose lines equal the block's lines under
\* the comparison mode is a hit of the block.
C2_AllOccurrences ==
    \A b \in OutputBlocks :
        \A f \in 1..Len(files) :
            \A s \in 0..Len(files[f].lines) :
                (/\ s + Len(b.lines) <= Len(files[f].lines)
                 /\ SameLines(SubSeq(files[f].lines, s + 1, s + Len(b.lines)), b.lines))
                    => [path |-> files[f].path, start_line |-> s + 1,
                        end_line |-> s + Len(b.lines)] \in HitSet(b)

\* A block longer than the seed with three or more occurrences.
C2_Witness ==
    /\ Done
    /\ \E b \in OutputBlocks :
          /\ Len(b.lines) > min_lines
          /\ Cardinality(HitSet(b)) >= 3

\* ------------------------------------------------------------------------ C3
\* C3: every hit of a returned block lies inside its file, spans as many
\* lines as the block has, and the file's lines there equal the block's
\* lines under the comparison mode.
C3_HitsMatch ==
    \A b \in OutputBlocks :
        \A h \in HitSet(b) :
            /\ \E i \in 1..Len(files) : files[i].path = h.path
            /\ 1 <= h.start_line
            /\ h.start_line <= h.end_line
            /\ h.end_line <= FileLen(h.path)
            /\ h.end_line - h.start_line + 1 = Len(b.lines)
            /\ SameLines(SubSeq(files[FileIndexOf(h.path)].lines,
                                h.start_line, h.end_line),
                         b.lines)

\* A block merged from several seed groups whose hits differ in indentation.
C3_Witness ==
    /\ Done
    /\ ignore_indent
    /\ \E b \in OutputBlocks :
          /\ Len(b.lines) > min_lines
          /\ \E h \in HitSet(b) :
                SubSeq(files[FileIndexOf(h.path)].lines, h.start_line, h.end_line)
                    # b.lines

\* ------------------------------------------------------------------------ C4
\* C4: every returned block has at least two hits and no hit twice.
C4_DistinctHits ==
    \A b \in OutputBlocks :
        /\ Len(b.hits) >= 2
        /\ \A i, j \in 1..Len(b.hits) : i # j => b.hits[i] # b.hits[j]

\* A block to which more than one seed group contributed its hits.
C4_Witness ==
    /\ Done
    /\ \E b \in OutputBlocks :
          Cardinality({k \in DOMAIN seeds :
                         /\ Len(seeds[k]) >= 2
                         /\ ContentKey(build_maximal_block(files, seeds[k], min_lines,
                                                           ignore_indent),
                                       ignore_indent)
                              = ContentKey(b, ignore_indent)}) >= 2

\* ------------------------------------------------------------------------ C5
\* C5 as stated: for every hit with a previous (following) line, some other
\* hit of the block has a previous (following) line that differs from it
\* under the comparison mode.
C5_PerHitStrict ==
    \A b \in OutputBlocks :
        \A h \in HitSet(b) :
            /\ HasPrev(h) =>
                  \E g \in HitSet(b) \ {h} :
                      HasPrev(g) /\ ~SameLine(PrevLine(h), PrevLine(g))
            /\ HasNext(h) =>
                  \E g \in HitSet(b) \ {h} :
                      HasNext(g) /\ ~SameLine(NextLine(h), NextLine(g))

\* C5 amended: for every hit with a previous (following) line, some other
\* hit of the block has no previous (following) line in its file or has one
\* that differs from it under the comparison mode.
C5_PerHitMaximal ==
    \A b \in OutputBlocks :
        \A h \in HitSet(b) :
            /\ HasPrev(h) =>
                  \E g \in HitSet(b) \ {h} :
                      ~HasPrev(g) \/ ~SameLine(PrevLine(h), PrevLine(g))
            /\ HasNext(h) =>
                  \E g \in HitSet(b) \ {h} :
                      ~HasNext(g) \/ ~SameLine(NextLine(h), NextLine(g))

\* A block of three or more hits, one with a previous line and another one
\* starting its file.
C5_Witness ==
    /\ Done
    /\ \E b \in OutputBlocks :
          /\ Cardinality(HitSet(b)) >= 3
          /\ \E h, g \in HitSet(b) : HasPrev(h) /\ ~HasPrev(g)
          /\ \E h, g \in HitSet(b) : HasNext(h) /\ ~HasNext(g)

\* ------------------------------------------------------------------------ C6

\* The keys of a map in ascending order: one fixed iteration order.
RECURSIVE Ascending(_)
Ascending(S) ==
    IF S = {} THEN <<>>
    ELSE LET k == CHOOSE x \in S : \A y \in S : ~StrLess(y, x)
         IN  <<k>> \o Ascending(S \ {k})

\* The extension/merge loop run over the seeds in the order ks.
RECURSIVE MergeInOrder(_, _, _)
MergeInOrder(ks, n, bc) ==
    IF n > Len(ks) THEN bc
    ELSE IF Len(seeds[ks[n]]) < 2 THEN MergeInOrder(ks, n + 1, bc)
    ELSE MergeInOrder(ks, n + 1,
             MergeBlock(bc,
                        build_maximal_block(files, seeds[ks[n]], min_lines,
                                            ignore_indent),
                        ignore_indent))

\* The collection loop run over the aggregates in the order ks.
RECURSIVE CollectInOrder(_, _, _, _)
CollectInOrder(bc, ks, n, o) ==
    IF n > Len(ks) THEN o
    ELSE CollectInOrder(bc, ks, n + 1, CollectAgg(o, bc[ks[n]]))

\* What the run that visits both maps in ascending key order may print.
AscendingRunOutputs ==
    LET bc == MergeInOrder(Ascending(DOMAIN seeds), 1, <<>>)
        o  == CollectInOrder(bc, Ascending(DOMAIN bc), 1, <<>>)
    IN  UNION {PrintedBlocks(sorted) : sorted \in SortedBlocks(o)}

\* C6: for fixed files, min_lines and ignore_indent the printed output does
\* not depend on the order in which the seed map and the aggregate map are
\* iterated: every run prints what the run in ascending key order prints,
\* and that run has one possible output.
C6_Deterministic ==
    Done => \A p \in AscendingRunOutputs : printed = p

\* Two or more blocks were collected from aggregates that several seeds fed.
C6_Witness ==
    /\ Done
    /\ Len(printed) >= 2
    /\ Cardinality({k \in DOMAIN seeds : Len(seeds[k]) >= 2}) >= 3

\* ------------------------------------------------------------------------ C7

\* h is the hit of b with the smallest (path, start_line).
IsFirstHit(b, h) ==
    /\ h \in HitSet(b)
    /\ \A g \in HitSet(b) :
          \/ g = h
          \/ StrLess(h.path, g.path)
          \/ h.path = g.path /\ h.start_line < g.start_line

\* C7: the lines of every returned block are, unchanged, the stored lines
\* of its hit with the smallest (path, start_line).
C7_CanonicalLines ==
    \A b \in OutputBlocks :
        \A h \in HitSet(b) :
            IsFirstHit(b, h) =>
                b.lines = SubSeq(files[FileIndexOf(h.path)].lines,
                                 h.start_line, h.end_line)

\* Indentation is ignored, the first hit's lines are indented and another
\* hit's lines are spelled differently.
C7_Witness ==
    /\ Done
    /\ ignore_indent
    /\ \E b \in OutputBlocks :
          /\ \E k \in 1..Len(b.lines) : Unindented(b.lines[k]) # b.lines[k]
          /\ \E h \in HitSet(b) :
                SubSeq(files[FileIndexOf(h.path)].lines, h.start_line, h.end_line)
                    # b.lines

\* ------------------------------------------------------------------------ C8

\* The hits a candidate seed group extends to.
ExtendedHits(k) ==
    HitSet(build_maximal_block(files, seeds[k], min_lines, ignore_indent))

IsScenarioA == disk = ScenarioA /\ min_lines = 3 /\ ~ignore_indent

ScenarioAResult ==
    <<[lines |-> <<<<66>>, <<67>>, <<68>>, <<69>>>>,
       hits  |-> <<[path |-> PathOf(1), start_line |-> 2, end_line |-> 5],
                   [path |-> PathOf(2), start_line |-> 1, end_line |-> 4]>>]>>

\* C8: no two printed blocks have equal content under the comparison mode;
\* the candidate seeds that extend to one set of hits give exactly one
\* printed block with those hits; Scenario A prints the one block B,C,D,E
\* with hits file1:[2,5] and file2:[1,4].
C8_OneBlockPerRegion ==
    Done =>
        /\ \A i, j \in 1..Len(printed) :
              i # j => ~SameLines(printed[i].lines, printed[j].lines)
        /\ \A k \in DOMAIN seeds :
              Len(seeds[k]) >= 2 =>
                  Cardinality({i \in 1..Len(printed) :
                                 HitSet(printed[i]) = ExtendedHits(k)}) = 1
        /\ IsScenarioA => printed = ScenarioAResult

\* Scenario A has run: two overlapping windows of the region B,C,D,E were
\* candidate seeds.
C8_Witness ==
    /\ Done
    /\ IsScenarioA
    /\ Cardinality({k \in DOMAIN seeds : Len(seeds[k]) >= 2}) = 2

\* ------------------------------------------------------------------------ C9

\* The window of min_lines lines at 0-based offset s of file f exists.
IsWindow(f, s) ==
    /\ f \in 1..Len(files)
    /\ s >= 0
    /\ s + min_lines <= Len(files[f].lines)

WindowLines(f, s) == SubSeq(files[f].lines, s + 1, s + min_lines)

Positions ==
    {p \in UNION {{<<f, s>> : s \in 0..Len(files[f].lines)} : f \in 1..Len(files)} :
        IsWindow(p[1], p[2])}

\* The window at p has the same content as the window at another position.
Repeated(p) ==
    \E q \in Positions \ {p} :
        SameLines(WindowLines(p[1], p[2]), WindowLines(q[1], q[2]))

\* C9: every window of min_lines lines whose content occurs at another
\* position lies inside a hit, in its file, of some returned block; the
\* result is empty exactly when no window content occurs at two positions.
C9_Coverage ==
    Returned =>
        /\ \A p \in Positions :
              Repeated(p) =>
                  \E b \in OutputBlocks :
                      \E h \in HitSet(b) :
                          /\ h.path = files[p[1]].path
                          /\ h.start_line <= p[2] + 1
                          /\ p[2] + min_lines <= h.end_line
        /\ (out = <<>>) <=> ~(\E p \in Positions : Repeated(p))
        /\ Done => ((printed = <<>>) <=> ~(\E p \in Positions : Repeated(p)))

\* A repeated window in a run where one file could not be read, and the
\* window lies inside a longer block.
C9_Witness ==
    /\ Done
    /\ \E i \in 1..Len(disk) : ~disk[i].readable
    /\ \E p \in Positions : Repeated(p)
    /\ \E b \in OutputBlocks : Len(b.lines) > min_lines

\* The empty result: windows exist, none is repeated.
C9_WitnessEmpty ==
    /\ Done
    /\ printed = <<>>
    /\ Cardinality(Positions) >= 2

\* ----------------------------------------------------------------------- C10

\* a comes before b in the order the claim states.
BlockBefore(a, b) ==
    \/ Len(a.lines) > Len(b.lines)
    \/ Len(a.lines) = Len(b.lines) /\ Len(a.hits) > Len(b.hits)
    \/ /\ Len(a.lines) = Len(b.lines)
       /\ Len(a.hits) = Len(b.hits)
       /\ LinesLess(a.lines, b.lines)

HitBefore(h, g) ==
    \/ StrLess(h.path, g.path)
    \/ h.path = g.path /\ h.start_line < g.start_line
    \/ h.path = g.path /\ h.start_line = g.start_line /\ h.end_line < g.end_line

\* C10: consecutive printed blocks are in strictly descending line count,
\* then strictly descending hit count, then strictly ascending content; the
\* hits of every printed block are in strictly ascending (path, start_line,
\* end_line).
C10_Ordered ==
    Done =>
        /\ \A i \in 1..(Len(printed) - 1) : BlockBefore(printed[i], printed[i + 1])
        /\ \A i \in 1..Len(printed) :
              \A n \in 1..(Len(printed[i].hits) - 1) :
                  HitBefore(printed[i].hits[n], printed[i].hits[n + 1])

\* Each of the three sort keys decides the order of two consecutive blocks.
C10_Witness ==
    /\ Done
    /\ \E i \in 1..(Len(printed) - 1) :
          Len(printed[i].lines) > Len(printed[i + 1].lines)
    /\ \E i \in 1..(Len(printed) - 1) :
          /\ Len(printed[i].lines) = Len(printed[i + 1].lines)
          /\ Len(printed[i].hits) > Len(printed[i + 1].hits)
    /\ \E i \in 1..(Len(printed) - 1) :
          /\ Len(printed[i].lines) = Len(printed[i + 1].lines)
          /\ Len(printed[i].hits) = Len(printed[i + 1].hits)

\* ----------------------------------------------------------------------- C12

\* The candidate seeds: buckets of two or more occurrences.
Candidates == {k \in DOMAIN seeds : Len(seeds[k]) >= 2}

ExtendedBlock(k) == build_maximal_block(files, seeds[k], min_lines, ignore_indent)

\* The candidate seeds the extension loop has visited.
Visited == IF pc = "load" \/ pc = "seed" THEN {} ELSE Candidates \ seeds_todo

\* C12: candidate seed groups that extend to one content key extend to one
\* set of hits; every aggregate has as many hits as each visited seed bucket
\* that was merged into it has occurrences; and the final filter drops no
\* aggregate.
C12_MergeKeepsHits ==
    /\ \A k1, k2 \in Candidates :
          ContentKey(ExtendedBlock(k1), ignore_indent)
                = ContentKey(ExtendedBlock(k2), ignore_indent)
              => HitSet(ExtendedBlock(k1)) = HitSet(ExtendedBlock(k2))
    /\ \A k \in Visited :
          \E ck \in DOMAIN by_content :
              /\ HitSet(ExtendedBlock(k)) = HitSet(by_content[ck])
              /\ Len(by_content[ck].hits) = Len(seeds[k])
    /\ \A ck \in DOMAIN by_content :
          /\ Len(by_content[ck].hits) >= 2
          /\ \E k \in Visited : HitSet(ExtendedBlock(k)) = HitSet(by_content[ck])
    /\ Returned => Len(out) = Cardinality(DOMAIN by_content)

\* An aggregate of three or more hits into which two or more seed groups
\* were merged, next to another aggregate.
C12_Witness ==
    /\ pc = "collect"
    /\ Cardinality(DOMAIN by_content) >= 2
    /\ \E ck \in DOMAIN by_content :
          /\ Len(by_content[ck].hits) >= 3
          /\ Cardinality({k \in Visited :
                            ContentKey(ExtendedBlock(k), ignore_indent) = ck}) >= 2

\* ----------------------------------------------------------------------- C11

\* The list of files main hands to find_repeated_blocks.
FileListReady == gpc = "sorted"

\* C11: the file list handed to find_repeated_blocks holds no file twice by
\* canonical path, whatever patterns, spellings of a base directory or
\* followed directory links reach it, and is in ascending order of path.
C11_NoFileTwice ==
    FileListReady =>
        /\ \A i, j \in 1..Len(results) :
              i < j => Canonical(fsys, results[i]).at # Canonical(fsys, results[j]).at
        /\ \A i, j \in 1..Len(results) : i < j => StrLess(results[i], results[j])

\* What the code does keep: the paths of the list are pairwise distinct as
\* strings and ascending, each names a regular file, and every regular file
\* that some pattern matches is in the list.
FileListByString ==
    FileListReady =>
        /\ \A i, j \in 1..Len(results) : i < j => StrLess(results[i], results[j])
        /\ \A i \in 1..Len(results) : fs_is_regular_file(fsys, results[i])
        /\ seen = {results[i] : i \in 1..Len(results)}

\* Two patterns reached one file under two spellings, with no link involved.
C11_TwoSpellings ==
    /\ FileListReady
    /\ fsys = FsPlain
    /\ \E i, j \in 1..Len(results) :
          /\ i < j
          /\ Canonical(fsys, results[i]).at = Canonical(fsys, results[j]).at

====
